---- MODULE Spec2Model ----
(***************************************************************************)
(* GroupTextCracker (meshcore-hashtag-cracker): the search orchestrator    *)
(* crack(), its resume cursor, cancellation and the two batch executors,   *)
(* as a state machine.  Spec is a session on the portable backend with a   *)
(* resumed call, SpecGpu a session of two calls on either backend,         *)
(* SpecOverlap a call with crack() and destroy() called at its suspension  *)
(* points, SpecLive one call whose awaits all settle, and SpecPure the     *)
(* calls of the pure functions (enumerator, wordlist filter, dictionary    *)
(* index, packet decoding, portable executor).                             *)
(*                                                                         *)
(* Room names are sequences of glyph codes.  The alphabet is scaled down:  *)
(* the code has 36 boundary glyphs (a-z, 0-9) plus '-', the model has      *)
(* BoundaryChars plus Dash.  Glyph Other stands for any character outside  *)
(* the alphabet ('[', ' ', ...), and Upper(c) for the upper-case form of   *)
(* the boundary glyph c.                                                   *)
(*                                                                         *)
(* The cryptographic primitives are external.  A packet carries, for each  *)
(* key, the outcome of the five checks the code makes with it (channel     *)
(* hash, tag, decryption, timestamp window, UTF-8); keys not listed in the *)
(* packet miss the channel hash.                                           *)
(***************************************************************************)
EXTENDS Integers, Sequences, FiniteSets, TLC

\* ------------------------------------------------------------------ bounds
MaxLen == 3            \* largest maxLength option a call is given
BatchSize == 4         \* INITIAL_BATCH_SIZE of the portable backend, scaled

\* ---------------------------------------------------------------- alphabet
BoundaryChars == {0, 1}                       \* 'a', 'b'
NumChars == Cardinality(BoundaryChars)        \* CHARS.length
Dash == NumChars                              \* CHARS_WITH_DASH[NumChars]
Other == NumChars + 1                         \* a character outside the alphabet
UpperBase == NumChars + 2
Upper(c) == UpperBase + c                     \* 'A', 'B'
HashSign == 2 * NumChars + 2                  \* '#'
KeyTag == 2 * NumChars + 3                    \* marks a derived key
Space == 2 * NumChars + 4                     \* white space
Zero == 2 * NumChars + 5                      \* the digit '0'
LowerX == 2 * NumChars + 6                    \* 'x'
UpperX == 2 * NumChars + 7                    \* 'X'

None == <<>>                                  \* undefined / null / ''

ToLowerChar(c) ==
  IF c >= UpperBase /\ c < UpperBase + NumChars THEN c - UpperBase
  ELSE IF c = UpperX THEN LowerX ELSE c
toLowerCase(s) == [k \in 1..Len(s) |-> ToLowerChar(s[k])]

RECURSIVE trimStart(_)
trimStart(s) == IF Len(s) > 0 /\ s[1] = Space THEN trimStart(Tail(s)) ELSE s
RECURSIVE trimEnd(_)
trimEnd(s) == IF Len(s) > 0 /\ s[Len(s)] = Space THEN trimEnd(SubSeq(s, 1, Len(s) - 1)) ELSE s
trim(s) == trimEnd(trimStart(s))

PUBLIC_ROOM_NAME == <<Other, Other>>          \* "[[public room]]"
PUBLIC_KEY == <<KeyTag, Other>>               \* the fixed public key

\* ------------------------------------------------------------- enumerator
RECURSIVE Pow(_, _)
Pow(b, e) == IF e <= 0 THEN 1 ELSE b * Pow(b, e - 1)

\* mutant: the interior positions counted without the dash
countNamesForLength_NoDash(len) ==
  IF len = 1 THEN NumChars ELSE NumChars * NumChars * Pow(NumChars, len - 2)

countNamesForLength(len) ==
  IF len = 1 THEN NumChars
  ELSE IF len = 2 THEN NumChars * NumChars
  ELSE NumChars * NumChars * Pow(NumChars + 1, len - 2)

Radix(len, p) == IF p = 1 \/ p = len THEN NumChars ELSE NumChars + 1

RECURSIVE Weight(_, _)
\* product of the radices of the positions right of p (the last is least significant)
Weight(len, p) == IF p >= len THEN 1 ELSE Radix(len, p + 1) * Weight(len, p + 1)

HasDoubleDash(s) == \E k \in 1..(Len(s) - 1) : s[k] = Dash /\ s[k + 1] = Dash

indexToRoomName(len, idx) ==
  IF len <= 0 \/ idx < 0 \/ idx >= countNamesForLength(len) THEN None
  ELSE LET s == [p \in 1..len |-> (idx \div Weight(len, p)) % Radix(len, p)]
       IN IF HasDoubleDash(s) THEN None ELSE s

NoPos == [length |-> 0, index |-> 0]          \* roomNameToIndex's null

IsLegalName(s) ==
  /\ Len(s) >= 1
  /\ \A k \in 1..Len(s) : s[k] \in BoundaryChars \cup {Dash}
  /\ s[1] # Dash /\ s[Len(s)] # Dash
  /\ ~HasDoubleDash(s)

\* mutant: the first character is the least significant
RECURSIVE IndexOfName_FirstLeast(_, _)
IndexOfName_FirstLeast(s, p) ==
  IF p > Len(s) THEN 0
  ELSE s[p] * Weight(Len(s), Len(s) - p + 1) + IndexOfName_FirstLeast(s, p + 1)

RECURSIVE IndexOfName(_, _)
IndexOfName(s, p) ==
  IF p > Len(s) THEN 0 ELSE s[p] * Weight(Len(s), p) + IndexOfName(s, p + 1)

roomNameToIndex(s) ==
  IF IsLegalName(s) THEN [length |-> Len(s), index |-> IndexOfName(s, 1)] ELSE NoPos

\* ------------------------------------------------------------- primitives
deriveKeyFromRoomName(hashName) == <<KeyTag>> \o hashName   \* truncate16(H(name)), injective
RoomKey(name) == deriveKeyFromRoomName(<<HashSign>> \o name)

Miss == [hash |-> FALSE, mac |-> FALSE, dec |-> FALSE, ts |-> FALSE, utf |-> FALSE]
Outcome(packet, key) == IF key \in DOMAIN packet.hits THEN packet.hits[key] ELSE Miss

HashMatches(packet, key) == Outcome(packet, key).hash
verifyMac(packet, key) == Outcome(packet, key).mac
DecryptOk(packet, key) == Outcome(packet, key).dec
isTimestampValid(packet, key) == Outcome(packet, key).ts
isValidUtf8(packet, key) == Outcome(packet, key).utf

\* ------------------------------------------------------------------ state
VARIABLES
  wordlist,             \* this.wordlist
  abortFlag,            \* this.abortFlag
  useTimestampFilter,   \* this.useTimestampFilter
  useUtf8Filter,        \* this.useUtf8Filter
  useCpu,               \* this.useCpu
  cpuInstance,          \* this.cpuInstance # null
  gpuInstance,          \* this.gpuInstance: "null", "ok" (init() gave true) or "failed"
  pc,                   \* where the running crack() is; "idle" when none runs
  opts,                 \* the packet and options of the current (or last) crack()
  startFromLength, startFromOffset, dictionaryStartIndex, skipDictionary,
  totalChecked, totalCandidates,
  initialBatchSize,     \* INITIAL_BATCH_SIZE of the running crack()
  currentBatchSize, batchSizeTuned, dispatchTime,
  i,                    \* dictionary loop index (0-based)
  length, offset,       \* brute-force loop position
  result,               \* the CrackResult of the last finished crack()
  inspected,            \* history: what this crack() has inspected, in order
  reports,              \* history: the last progress report of this crack()
  prev,                 \* history: the previous crack() of the session
  stage,                \* "new", "first" (a fresh call) or "resumed" (its resumption)
  probe,                \* the last call of a pure function: its input and output
  other                 \* a second crack() entered while the first is suspended

instVars == <<wordlist, abortFlag, useTimestampFilter, useUtf8Filter, useCpu, cpuInstance, gpuInstance>>
posVars == <<startFromLength, startFromOffset, dictionaryStartIndex, skipDictionary, totalCandidates>>
loopVars == <<i, length, offset>>
tuneVars == <<initialBatchSize, currentBatchSize, batchSizeTuned, dispatchTime>>
histVars == <<inspected, reports, prev, stage, probe, other>>
vars == <<instVars, pc, opts, posVars, totalChecked, loopVars, tuneVars, result, histVars>>

\* ----------------------------------------------------------------- inputs
NameA == <<0>>
NameB == <<1>>
NameAA == <<0, 0>>
NameAB == <<0, 1>>
NameBA == <<1, 0>>
NameBB == <<1, 1>>
NameABA == <<0, 1, 0>>
NameBDashB == <<1, Dash, 1>>

Good == [hash |-> TRUE, mac |-> TRUE, dec |-> TRUE, ts |-> TRUE, utf |-> TRUE]
HashOnly == [Miss EXCEPT !.hash = TRUE]
OtherChannel == [Good EXCEPT !.hash = FALSE]    \* tag and text pass, another channel hash
NoDecrypt == [Miss EXCEPT !.hash = TRUE, !.mac = TRUE]
BadTime == [Good EXCEPT !.ts = FALSE]
BadText == [Good EXCEPT !.utf = FALSE]

Hits(pairs) == [k \in {p[1] : p \in pairs} |-> (CHOOSE p \in pairs : p[1] = k)[2]]

\* The packets a call may be given: an unparsable one, one nothing matches, and
\* packets with several keys passing the channel hash, some of them tag collisions.
Packets ==
  { [valid |-> FALSE, hits |-> Hits({})],
    [valid |-> TRUE, hits |-> Hits({})],
    [valid |-> TRUE, hits |-> Hits({<<PUBLIC_KEY, Good>>, <<RoomKey(NameAB), Good>>,
                                    <<RoomKey(NameB), OtherChannel>>})],
    [valid |-> TRUE, hits |-> Hits({<<PUBLIC_KEY, BadTime>>, <<RoomKey(NameA), BadText>>,
                                    <<RoomKey(NameAB), HashOnly>>, <<RoomKey(NameBA), NoDecrypt>>,
                                    <<RoomKey(NameABA), Good>>})],
    [valid |-> TRUE, hits |-> Hits({<<RoomKey(NameAA), Good>>, <<RoomKey(NameAB), Good>>,
                                    <<RoomKey(NameBDashB), Good>>, <<PUBLIC_KEY, OtherChannel>>})] }

\* Words handed to setWordlist: legal names, an upper-case one, and illegal ones.
InputWordLists ==
  { <<>>,
    <<NameAB, NameA>>,
    <<NameA, NameAB, NameA>>,
    <<<<Upper(0), 1>>, <<Dash, 0>>, NameBB, <<0, Other>>>> }

\* Resume cursors a fresh call may be given (startFrom, startFromType); the type
\* defaults to 'bruteforce' when no cursor is given.
Cursors ==
  { <<None, "bruteforce">>,
    <<NameA, "dictionary">>, <<NameAB, "dictionary">>, <<NameB, "dictionary">>,
    <<NameA, "bruteforce">>, <<NameB, "bruteforce">>, <<NameAB, "bruteforce">>,
    <<<<Upper(1), 1>>, "bruteforce">>, <<<<0, Dash>>, "bruteforce">> }

Options ==
  { [ packet |-> p, maxLength |-> ml, startingLength |-> sl, useDictionary |-> ud,
      useTimestampFilter |-> tf, useUtf8Filter |-> uf,
      startFrom |-> c[1], startFromType |-> c[2], forceCpu |-> TRUE ] :
    p \in Packets, ml \in 1..MaxLen, sl \in 1..2, ud \in BOOLEAN,
    tf \in BOOLEAN, uf \in BOOLEAN, c \in Cursors }

NoResult == [found |-> FALSE, aborted |-> FALSE, error |-> FALSE, thrown |-> FALSE,
             roomName |-> None, key |-> None, resumeFrom |-> None, resumeType |-> "none"]
NoReport == [phase |-> "none", checked |-> 0, total |-> 0, percent |-> 0]
NoOpts == [packet |-> [valid |-> FALSE, hits |-> Hits({})], maxLength |-> 1, startingLength |-> 1,
           useDictionary |-> TRUE, useTimestampFilter |-> TRUE, useUtf8Filter |-> TRUE,
           startFrom |-> None, startFromType |-> "bruteforce", forceCpu |-> TRUE]
NoOther == [pc |-> "idle", packetValid |-> FALSE]
NoProbe == [op |-> "none", arg |-> <<>>, out |-> <<>>, done |-> FALSE]
NoPrev == [opts |-> NoOpts, result |-> NoResult, inspected |-> <<>>,
           startFromLength |-> 0, startFromOffset |-> 0, dictionaryStartIndex |-> 0]

\* a new GroupTextCracker
Constructed ==
  /\ wordlist = <<>>
  /\ abortFlag = FALSE
  /\ useTimestampFilter = TRUE
  /\ useUtf8Filter = TRUE
  /\ useCpu = FALSE
  /\ cpuInstance = FALSE
  /\ gpuInstance = "null"
  /\ pc = "idle"
  /\ opts = NoOpts
  /\ startFromLength = 0 /\ startFromOffset = 0
  /\ dictionaryStartIndex = 0 /\ skipDictionary = FALSE
  /\ totalChecked = 0 /\ totalCandidates = 0
  /\ i = 0 /\ length = 0 /\ offset = 0
  /\ initialBatchSize = 0 /\ currentBatchSize = 0 /\ batchSizeTuned = FALSE /\ dispatchTime = 0
  /\ result = NoResult
  /\ inspected = <<>>
  /\ reports = NoReport
  /\ prev = NoPrev
  /\ stage = "new"
  /\ other = NoOther

Init == Constructed /\ probe = NoProbe

\* ------------------------------------------------------------ setWordlist
VALID_CHARS(name) == \A k \in 1..Len(name) : name[k] \in BoundaryChars \cup {Dash}
NO_DASH_AT_ENDS(name) == name[1] \in BoundaryChars /\ name[Len(name)] \in BoundaryChars
NO_CONSECUTIVE_DASHES(name) == HasDoubleDash(name)

isValidRoomName(name) ==
  /\ Len(name) # 0
  /\ VALID_CHARS(name)
  /\ ~(Len(name) > 1 /\ ~NO_DASH_AT_ENDS(name))
  /\ ~NO_CONSECUTIVE_DASHES(name)

FilterWords(words) ==
  SelectSeq([k \in 1..Len(words) |-> toLowerCase(trim(words[k]))], isValidRoomName)

SetWordlist(words) ==
  /\ pc = "idle" /\ stage = "new"
  /\ wordlist' = FilterWords(words)
  /\ UNCHANGED <<abortFlag, useTimestampFilter, useUtf8Filter, useCpu, cpuInstance, gpuInstance,
                 pc, opts, posVars, totalChecked, loopVars, tuneVars, result, histVars>>

\* ------------------------------------------------------------------ abort
\* abort() runs only while crack() is suspended at an await, or between calls.
AwaitPcs == {"idle", "decode", "gpuInit", "dictYield", "bfYield", "gpuBatch"}

Abort ==
  /\ pc \in AwaitPcs
  /\ ~abortFlag
  /\ abortFlag' = TRUE
  /\ UNCHANGED <<wordlist, useTimestampFilter, useUtf8Filter, useCpu, cpuInstance, gpuInstance,
                 pc, opts, posVars, totalChecked, loopVars, tuneVars, result, histVars>>

\* ------------------------------------------------------------------ crack
Begin(o) ==
  /\ pc = "idle"
  /\ abortFlag' = FALSE
  /\ useTimestampFilter' = o.useTimestampFilter
  /\ useUtf8Filter' = o.useUtf8Filter
  /\ useCpu' = o.forceCpu
  /\ opts' = o
  /\ pc' = "decode"
  /\ startFromLength' = 0 /\ startFromOffset' = 0
  /\ dictionaryStartIndex' = 0 /\ skipDictionary' = FALSE
  /\ totalChecked' = 0 /\ totalCandidates' = 0
  /\ i' = 0 /\ length' = 0 /\ offset' = 0
  /\ initialBatchSize' = 0 /\ currentBatchSize' = 0 /\ batchSizeTuned' = FALSE /\ dispatchTime' = 0
  /\ result' = NoResult
  /\ inspected' = <<>>
  /\ reports' = NoReport
  /\ UNCHANGED <<wordlist, cpuInstance, gpuInstance, probe, other>>

\* A fresh call, with any options.
CrackStart ==
  /\ stage = "new"
  /\ \E o \in Options : Begin(o)
  /\ prev' = NoPrev
  /\ stage' = "first"

\* The caller resumes: the same packet and options, the cursor of the last result.
CrackResume ==
  /\ stage = "first"
  /\ result.found \/ result.aborted
  /\ Begin([opts EXCEPT !.startFrom = result.resumeFrom,
                        !.startFromType = IF result.resumeType = "none" THEN "bruteforce"
                                          ELSE result.resumeType])
  /\ prev' = [opts |-> opts, result |-> result, inspected |-> inspected,
              startFromLength |-> startFromLength, startFromOffset |-> startFromOffset,
              dictionaryStartIndex |-> dictionaryStartIndex]
  /\ stage' = "resumed"

Return(r) ==
  /\ result' = r
  /\ pc' = "idle"

\* mutant: the parse error carries a resume type
ErrorResult_WithCursor == [NoResult EXCEPT !.error = TRUE, !.resumeType = "bruteforce"]

ErrorResult == [NoResult EXCEPT !.error = TRUE]
\* mutant: the key is left out of a success
FoundResult_NoKey(name, key, from, type) ==
  [NoResult EXCEPT !.found = TRUE, !.roomName = name, !.resumeFrom = from, !.resumeType = type]

FoundResult(name, key, from, type) ==
  [NoResult EXCEPT !.found = TRUE, !.roomName = name, !.key = key,
                   !.resumeFrom = from, !.resumeType = type]
\* mutant: every abort is reported as a brute-force abort
AbortedResult_AlwaysBruteforce(from, type) ==
  [NoResult EXCEPT !.aborted = TRUE, !.resumeFrom = from, !.resumeType = "bruteforce"]

AbortedResult(from, type) ==
  [NoResult EXCEPT !.aborted = TRUE, !.resumeFrom = from, !.resumeType = type]
NotFoundResult(from) == [NoResult EXCEPT !.resumeFrom = from, !.resumeType = "bruteforce"]

DecodeDone ==
  /\ pc = "decode"
  /\ IF ~opts.packet.valid
       THEN /\ Return(ErrorResult)
            /\ UNCHANGED <<cpuInstance, gpuInstance>>
       ELSE /\ cpuInstance' = (IF useCpu THEN TRUE ELSE cpuInstance)
            /\ gpuInstance' = (IF ~useCpu /\ gpuInstance = "null" THEN "created" ELSE gpuInstance)
            /\ pc' = (IF ~useCpu /\ gpuInstance = "null" THEN "gpuInit" ELSE "setup")
            /\ UNCHANGED result
  /\ UNCHANGED <<wordlist, abortFlag, useTimestampFilter, useUtf8Filter, useCpu, opts,
                 posVars, totalChecked, loopVars, tuneVars, histVars>>

\* await this.gpuInstance.init() has settled; on failure the call falls back
GpuInitDone ==
  /\ pc = "gpuInit"
  /\ \E gpuOk \in BOOLEAN :
       /\ gpuInstance' = (IF gpuInstance = "null" THEN "null"
                          ELSE IF gpuOk THEN "ok" ELSE "failed")
       /\ useCpu' = (IF gpuOk THEN useCpu ELSE TRUE)
       /\ cpuInstance' = (IF gpuOk THEN cpuInstance ELSE TRUE)
  /\ pc' = "setup"
  /\ UNCHANGED <<wordlist, abortFlag, useTimestampFilter, useUtf8Filter, opts,
                 posVars, totalChecked, loopVars, tuneVars, result, histVars>>

\* Array.prototype.indexOf, 0-based, -1 when absent
indexOf(list, w) ==
  IF \E k \in 1..Len(list) : list[k] = w
    THEN (CHOOSE k \in 1..Len(list) : list[k] = w /\ \A j \in 1..(k - 1) : list[j] # w) - 1
    ELSE -1

\* mutant: the second argument, whatever the first
Max_Second(a, b) == b

Max(a, b) == IF a >= b THEN a ELSE b
\* mutant: the first argument, whatever the second
Min_First(a, b) == a

Min(a, b) == IF a <= b THEN a ELSE b

\* The starting position of the three phases, from the resume cursor.
ResumePosition(o, wl) ==
  LET fresh == [startFromLength |-> o.startingLength, startFromOffset |-> 0,
                dictionaryStartIndex |-> 0, skipDictionary |-> FALSE]
      normalizedStartFrom == toLowerCase(o.startFrom)
      wordIndex == indexOf(wl, normalizedStartFrom)
      pos == roomNameToIndex(normalizedStartFrom)
      len == Max(o.startingLength, pos.length)
      off == pos.index + 1
  IN IF o.startFrom = None THEN fresh
     ELSE IF o.startFromType = "dictionary"
       THEN IF wordIndex >= 0 THEN [fresh EXCEPT !.dictionaryStartIndex = wordIndex + 1]
            ELSE fresh
     ELSE IF pos = NoPos THEN [fresh EXCEPT !.skipDictionary = TRUE]
     ELSE IF off >= countNamesForLength(len)
       THEN [fresh EXCEPT !.skipDictionary = TRUE, !.startFromLength = len + 1]
       ELSE [fresh EXCEPT !.skipDictionary = TRUE, !.startFromLength = len,
                          !.startFromOffset = off]

RECURSIVE SumCounts(_, _)
SumCounts(from, to) == IF from > to THEN 0 ELSE countNamesForLength(from) + SumCounts(from + 1, to)

\* mutant: the dictionary guard forgets the useDictionary option
DictionaryEnabled_IgnoresOption(o, wl, skip) == ~skip /\ Len(wl) > 0

\* mutant: the dictionary guard forgets skipDictionary
DictionaryEnabled_IgnoresSkip(o, wl, skip) == o.useDictionary /\ Len(wl) > 0

DictionaryEnabled(o, wl, skip) == o.useDictionary /\ ~skip /\ Len(wl) > 0

TotalCandidates(o, wl, rp) ==
  (IF DictionaryEnabled(o, wl, rp.skipDictionary) THEN Len(wl) - rp.dictionaryStartIndex ELSE 0)
  + SumCounts(rp.startFromLength, o.maxLength) - rp.startFromOffset

Setup ==
  /\ pc = "setup"
  /\ LET rp == ResumePosition(opts, wordlist)
     IN /\ startFromLength' = rp.startFromLength
        /\ startFromOffset' = rp.startFromOffset
        /\ dictionaryStartIndex' = rp.dictionaryStartIndex
        /\ skipDictionary' = rp.skipDictionary
        /\ totalCandidates' = TotalCandidates(opts, wordlist, rp)
  /\ pc' = "phase1"
  /\ UNCHANGED <<instVars, opts, totalChecked, loopVars, tuneVars, result, histVars>>

\* mutant: the UTF-8 filter is never applied
verifyMacAndFilters_NoUtf8(packet, key, timestampFilter, utf8Filter) ==
  /\ verifyMac(packet, key)
  /\ DecryptOk(packet, key)
  /\ ~(timestampFilter /\ ~isTimestampValid(packet, key))

\* Tag, decryption and the enabled filters, for one key.
verifyMacAndFilters(packet, key, timestampFilter, utf8Filter) ==
  /\ verifyMac(packet, key)
  /\ DecryptOk(packet, key)
  /\ ~(timestampFilter /\ ~isTimestampValid(packet, key))
  /\ ~(utf8Filter /\ ~isValidUtf8(packet, key))

\* percent of a report, in whole percents:
\* totalCandidates > 0 ? Math.min(100, (totalChecked / totalCandidates) * 100) : 0
Percent(checked, total) ==
  IF total > 0 THEN Min(100, (checked * 100) \div total) ELSE 0

\* mutant: the report counts down what remains
Report_Remaining(phase) ==
  [phase |-> phase, checked |-> totalCandidates - totalChecked', total |-> totalCandidates,
   percent |-> Percent(totalCandidates - totalChecked', totalCandidates)]

Report(phase) ==
  [phase |-> phase, checked |-> totalChecked', total |-> totalCandidates,
   percent |-> Percent(totalChecked', totalCandidates)]

\* Phase 1 runs only when no resume position was computed.
PublicPhaseRuns ==
  /\ ~skipDictionary
  /\ dictionaryStartIndex = 0
  /\ startFromLength = opts.startingLength
  /\ startFromOffset = 0

Phase1 ==
  /\ pc = "phase1"
  /\ UNCHANGED totalChecked
  /\ IF PublicPhaseRuns
       THEN /\ reports' = Report("public-key")
            /\ inspected' = Append(inspected, <<"public">>)
            /\ IF /\ HashMatches(opts.packet, PUBLIC_KEY)
                  /\ verifyMacAndFilters(opts.packet, PUBLIC_KEY, useTimestampFilter, useUtf8Filter)
                 THEN Return(FoundResult(PUBLIC_ROOM_NAME, PUBLIC_KEY, None, "none"))
                 ELSE pc' = "phase2" /\ UNCHANGED result
       ELSE /\ pc' = "phase2"
            /\ UNCHANGED <<result, reports, inspected>>
  /\ UNCHANGED <<instVars, opts, posVars, loopVars, tuneVars, prev, stage, probe, other>>

\* smaller batches for the portable backend (1024 against 32768); the value of
\* the constant when the brute-force phase is entered
INITIAL_BATCH_SIZE == IF useCpu THEN BatchSize ELSE Pow(2, BatchSize - 1)

Phase2 ==
  /\ pc = "phase2"
  /\ IF DictionaryEnabled(opts, wordlist, skipDictionary)
       THEN pc' = "dict" /\ i' = dictionaryStartIndex /\ UNCHANGED <<length, tuneVars>>
       ELSE /\ pc' = "bfLength" /\ length' = startFromLength /\ UNCHANGED i
            /\ initialBatchSize' = INITIAL_BATCH_SIZE /\ currentBatchSize' = INITIAL_BATCH_SIZE
            /\ batchSizeTuned' = FALSE /\ dispatchTime' = 0
  /\ UNCHANGED <<instVars, opts, posVars, totalChecked, offset, result, histVars>>

\* mutant: the flag is read at the head of the length loop only
abortObserved_LengthHeadOnly == abortFlag /\ pc = "bfLength"

\* if (this.abortFlag), at the head of each loop
abortObserved == abortFlag

\* One iteration of the dictionary loop; tick says 200 ms have passed since the
\* last progress report, and the loop then reports and yields.
DictStep ==
  /\ pc = "dict"
  /\ i < Len(wordlist)
  /\ IF abortObserved
       THEN /\ Return(AbortedResult(wordlist[i + 1], "dictionary"))
            /\ UNCHANGED <<i, totalChecked, inspected, reports>>
       ELSE LET word == wordlist[i + 1]
                key == deriveKeyFromRoomName(<<HashSign>> \o word)
            IN /\ inspected' = Append(inspected, <<"dict", i>>)
               /\ IF /\ HashMatches(opts.packet, key)
                     /\ verifyMacAndFilters(opts.packet, key, useTimestampFilter, useUtf8Filter)
                    THEN /\ Return(FoundResult(word, key, word, "dictionary"))
                         /\ UNCHANGED <<i, totalChecked, reports>>
                    ELSE /\ totalChecked' = totalChecked + 1
                         /\ i' = i + 1
                         /\ UNCHANGED result
                         /\ \E tick \in BOOLEAN :
                              IF tick THEN reports' = Report("wordlist") /\ pc' = "dictYield"
                                      ELSE UNCHANGED reports /\ pc' = "dict"
  /\ UNCHANGED <<instVars, opts, posVars, length, offset, tuneVars, prev, stage, probe, other>>

DictDone ==
  /\ pc = "dict"
  /\ i >= Len(wordlist)
  /\ pc' = "bfLength"
  /\ length' = startFromLength
  /\ initialBatchSize' = INITIAL_BATCH_SIZE /\ currentBatchSize' = INITIAL_BATCH_SIZE
  /\ batchSizeTuned' = FALSE /\ dispatchTime' = 0
  /\ UNCHANGED <<instVars, opts, posVars, totalChecked, i, offset, result, histVars>>

\* setTimeout(resolve, 0) has fired
Resumed ==
  /\ pc \in {"dictYield", "bfYield"}
  /\ pc' = (IF pc = "dictYield" THEN "dict" ELSE "bfBatch")
  /\ UNCHANGED <<instVars, opts, posVars, totalChecked, loopVars, tuneVars, result, histVars>>

\* ------------------------------------------------------ portable backend
\* CpuBruteForce.runBatch: the indices of the batch whose name exists, whose key
\* has the target channel hash and (ciphertext and tag given) verifies the tag.
CpuCandidateMatches(packet, nameLength, nameIdx, verifyMacEnabled) ==
  LET roomName == indexToRoomName(nameLength, nameIdx)
      key == deriveKeyFromRoomName(<<HashSign>> \o roomName)
  IN /\ roomName # None
     /\ HashMatches(packet, key)
     /\ ~(verifyMacEnabled /\ ~verifyMac(packet, key))

\* mutant: the index within the batch is reported
CpuRunBatch_WithinBatch(packet, nameLength, batchOffset, batchSize, verifyMacEnabled) ==
  LET Matches(k) == CpuCandidateMatches(packet, nameLength, batchOffset + k, verifyMacEnabled)
  IN SelectSeq([k \in 1..batchSize |-> k - 1], Matches)

CpuRunBatch(packet, nameLength, batchOffset, batchSize, verifyMacEnabled) ==
  LET Matches(nameIdx) == CpuCandidateMatches(packet, nameLength, nameIdx, verifyMacEnabled)
  IN SelectSeq([k \in 1..batchSize |-> batchOffset + k - 1], Matches)

\* ----------------------------------------------------------- brute force

\* "Check matches": the first reported index whose name exists and passes the filters, or -1
FirstValidMatch(packet, len, matches, timestampFilter, utf8Filter) ==
  LET Valid(k) == LET roomName == indexToRoomName(len, matches[k])
                  IN /\ roomName # None
                     /\ verifyMacAndFilters(packet, deriveKeyFromRoomName(<<HashSign>> \o roomName),
                                            timestampFilter, utf8Filter)
  IN IF \E k \in 1..Len(matches) : Valid(k)
       THEN matches[CHOOSE k \in 1..Len(matches) : Valid(k) /\ \A j \in 1..(k - 1) : ~Valid(j)]
       ELSE -1

\* mutant: the inner loop does not advance
AdvanceOffset_Stuck(off, batchSize) == off

\* offset += batchSize
AdvanceOffset(off, batchSize) == off + batchSize

\* The head of the outer loop: for (length = startFromLength; length <= maxLength; ...)
BfLength ==
  /\ pc = "bfLength"
  /\ length <= opts.maxLength
  /\ IF abortObserved
       THEN /\ Return(AbortedResult(indexToRoomName(length, 0), "bruteforce"))
            /\ UNCHANGED offset
       ELSE /\ offset' = (IF length = startFromLength THEN startFromOffset ELSE 0)
            /\ pc' = "bfBatch"
            /\ UNCHANGED result
  /\ UNCHANGED <<instVars, opts, posVars, totalChecked, i, length, tuneVars, histVars>>

\* The inner loop is over for this length.
BfLengthDone ==
  /\ pc = "bfBatch"
  /\ offset >= countNamesForLength(length)
  /\ length' = length + 1
  /\ pc' = "bfLength"
  /\ UNCHANGED <<instVars, opts, posVars, totalChecked, i, offset, tuneVars, result, histVars>>

\* "Check matches", offset += batchSize and the progress update, after a batch
CheckMatches(matches, batchSize) ==
  LET matchIdx == FirstValidMatch(opts.packet, length, matches,
                                  useTimestampFilter, useUtf8Filter)
      roomName == indexToRoomName(length, matchIdx)
  IN /\ totalChecked' = totalChecked + batchSize
     /\ IF matchIdx >= 0
          THEN /\ Return(FoundResult(roomName,
                                     deriveKeyFromRoomName(<<HashSign>> \o roomName),
                                     roomName, "bruteforce"))
               /\ UNCHANGED <<offset, reports>>
          ELSE /\ offset' = AdvanceOffset(offset, batchSize)
               /\ UNCHANGED result
               /\ \E tick \in BOOLEAN :
                    IF tick THEN reports' = Report("bruteforce") /\ pc' = "bfYield"
                            ELSE UNCHANGED reports /\ pc' = "bfBatch"

\* One iteration of the inner loop: the abort check, then one batch, run at once
\* on the portable backend or dispatched to the accelerator; the call on an
\* instance that is null throws.
BfBatch ==
  /\ pc = "bfBatch"
  /\ offset < countNamesForLength(length)
  /\ IF abortObserved
       THEN /\ Return(AbortedResult(indexToRoomName(length, offset), "bruteforce"))
            /\ UNCHANGED <<offset, totalChecked, inspected, reports>>
       ELSE LET batchSize == Min(currentBatchSize, countNamesForLength(length) - offset)
                backend == IF useCpu THEN (IF cpuInstance THEN "cpu" ELSE "null") ELSE gpuInstance
            IN /\ inspected' = Append(inspected, <<"bf", length, offset, batchSize, backend>>)
               /\ IF backend = "null"
                    THEN /\ Return([NoResult EXCEPT !.thrown = TRUE])
                         /\ UNCHANGED <<offset, totalChecked, reports>>
                    ELSE IF useCpu
                      THEN CheckMatches(CpuRunBatch(opts.packet, length, offset, batchSize, TRUE),
                                        batchSize)
                      ELSE /\ pc' = "gpuBatch"
                           /\ UNCHANGED <<offset, totalChecked, result, reports>>
  /\ UNCHANGED <<instVars, opts, posVars, i, length, tuneVars, prev, stage, probe, other>>

\* ------------------------------------------------------------ accelerator
\* The sequences without repetition of the members of a set.
Orderings(S) ==
  {f \in [1..Cardinality(S) -> S] : \A a, b \in 1..Cardinality(S) : f[a] = f[b] => a = b}

\* GpuBruteForce.runBatch: the matches of the executor contract, in the order the
\* kernel appended them to its output buffer (any order).
GpuRunBatch(packet, nameLength, batchOffset, batchSize) ==
  Orderings({x \in batchOffset..(batchOffset + batchSize - 1) :
               CpuCandidateMatches(packet, nameLength, x, TRUE)})

\* Auto-tuning.  The measured time of a dispatch, in whole milliseconds: too short
\* to measure, or one of two times below the target.
TARGET_DISPATCH_MS == 6
DispatchTimes == {0, TARGET_DISPATCH_MS - 2, TARGET_DISPATCH_MS - 1}

\* Math.round(a / b) for a >= 0, b > 0
Round(a, b) == (2 * a + b) \div (2 * b)

\* Math.round(Math.log2(x)) for x >= 1: the least k with x < 2^(k + 1/2)
RECURSIVE RoundLog2(_, _)
RoundLog2(x, k) == IF x * x < Pow(2, 2 * k + 1) THEN k ELSE RoundLog2(x, k + 1)

\* mutant: the optimal size is not rounded to a power of two
NearestPow2_Identity(x) == x

NearestPow2(x) == Pow(2, RoundLog2(x, 0))

\* the batch size after a full-size dispatch that took time > 0
TunedBatchSize(batchSize, time) ==
  LET optimalBatchSize == Round(batchSize * TARGET_DISPATCH_MS, time)
      rounded == NearestPow2(Max(initialBatchSize, optimalBatchSize))
  IN Max(initialBatchSize, rounded)

\* await this.gpuInstance.runBatch(...) has settled.  What an instance whose
\* init() failed, has not settled, or that was destroyed does with a batch is
\* not known: it throws or reports nothing.
GpuBatchDone ==
  /\ pc = "gpuBatch"
  /\ LET batchSize == Min(currentBatchSize, countNamesForLength(length) - offset)
     IN \/ /\ gpuInstance # "ok"
           /\ Return([NoResult EXCEPT !.thrown = TRUE])
           /\ UNCHANGED <<offset, totalChecked, reports, tuneVars>>
        \/ /\ \E matches \in (IF gpuInstance # "ok" THEN {<<>>}
                              ELSE GpuRunBatch(opts.packet, length, offset, batchSize)) :
                CheckMatches(matches, batchSize)
           /\ IF ~useCpu /\ ~batchSizeTuned /\ batchSize >= initialBatchSize
                THEN \E time \in DispatchTimes :
                       /\ dispatchTime' = time
                       /\ IF time > 0
                            THEN /\ currentBatchSize' = TunedBatchSize(batchSize, time)
                                 /\ batchSizeTuned' = TRUE
                            ELSE UNCHANGED <<currentBatchSize, batchSizeTuned>>
                       /\ UNCHANGED initialBatchSize
                ELSE UNCHANGED tuneVars
  /\ UNCHANGED <<instVars, opts, posVars, i, length, inspected, prev, stage, probe, other>>

\* destroy(), between calls
Destroy ==
  /\ pc = "idle"
  /\ gpuInstance' = "null"
  /\ cpuInstance' = FALSE
  /\ UNCHANGED <<wordlist, abortFlag, useTimestampFilter, useUtf8Filter, useCpu, pc, opts,
                 posVars, totalChecked, loopVars, tuneVars, result, histVars>>

\* "Not found": the outer loop is over.
NotFound ==
  /\ pc = "bfLength"
  /\ length > opts.maxLength
  /\ Return(NotFoundResult(indexToRoomName(opts.maxLength,
                                           countNamesForLength(opts.maxLength) - 1)))
  /\ UNCHANGED <<instVars, opts, posVars, totalChecked, loopVars, tuneVars, histVars>>

Next ==
  \/ \E words \in InputWordLists : SetWordlist(words)
  \/ Abort
  \/ CrackStart
  \/ CrackResume
  \/ DecodeDone
  \/ Setup
  \/ Phase1
  \/ Phase2
  \/ DictStep
  \/ DictDone
  \/ Resumed
  \/ BfLength
  \/ BfLengthDone
  \/ BfBatch
  \/ NotFound

Spec == Init /\ [][Next]_vars

\* ------------------------------------------- both backends, several calls
\* The calls of the two-backend sessions: no resume cursor, either backend.
OptionsGpu ==
  { [ packet |-> p, maxLength |-> ml, startingLength |-> sl, useDictionary |-> ud,
      useTimestampFilter |-> f, useUtf8Filter |-> f,
      startFrom |-> None, startFromType |-> "bruteforce", forceCpu |-> fc ] :
    p \in Packets, ml \in 1..MaxLen, sl \in 1..2, ud \in BOOLEAN,
    f \in BOOLEAN, fc \in BOOLEAN }

CrackStartGpu ==
  /\ stage = "new"
  /\ \E o \in OptionsGpu : Begin(o)
  /\ prev' = NoPrev
  /\ stage' = "first"

\* A later call on the same instance: the same packet and options, either backend.
CrackAgain ==
  /\ stage = "first"
  /\ \E fc \in BOOLEAN : Begin([opts EXCEPT !.forceCpu = fc])
  /\ prev' = [opts |-> opts, result |-> result, inspected |-> inspected,
              startFromLength |-> startFromLength, startFromOffset |-> startFromOffset,
              dictionaryStartIndex |-> dictionaryStartIndex]
  /\ stage' = "again"

NextGpu ==
  \/ \E words \in InputWordLists : SetWordlist(words)
  \/ Abort
  \/ CrackStartGpu
  \/ CrackAgain
  \/ Destroy
  \/ DecodeDone
  \/ GpuInitDone
  \/ Setup
  \/ Phase1
  \/ Phase2
  \/ DictStep
  \/ DictDone
  \/ Resumed
  \/ BfLength
  \/ BfLengthDone
  \/ BfBatch
  \/ GpuBatchDone
  \/ NotFound

SpecGpu == Init /\ [][NextGpu]_vars

\* ------------------------------------------------------ overlapping calls
\* Nothing in the class keeps crack() or destroy() from being called while a
\* crack() is suspended.  The first call runs as above; of the second call the
\* steps that write instance fields are modelled, its loops write none.
SuspendedPcs == AwaitPcs \ {"idle"}

OptionsOverlap ==
  { [ packet |-> p, maxLength |-> 2, startingLength |-> 1, useDictionary |-> ud,
      useTimestampFilter |-> f, useUtf8Filter |-> f,
      startFrom |-> None, startFromType |-> "bruteforce", forceCpu |-> fc ] :
    p \in {q \in Packets : q.hits = Hits({})}, ud \in BOOLEAN, f \in BOOLEAN, fc \in BOOLEAN }

CrackStartOverlap ==
  /\ stage = "new"
  /\ \E o \in OptionsOverlap : Begin(o)
  /\ prev' = NoPrev
  /\ stage' = "first"

\* the second crack(), from its entry to its first await
OtherBegin ==
  /\ pc \in SuspendedPcs
  /\ other.pc = "idle"
  /\ \E o \in OptionsOverlap :
       /\ abortFlag' = FALSE
       /\ useTimestampFilter' = o.useTimestampFilter
       /\ useUtf8Filter' = o.useUtf8Filter
       /\ useCpu' = o.forceCpu
       /\ other' = [pc |-> "decode", packetValid |-> o.packet.valid]
  /\ UNCHANGED <<wordlist, cpuInstance, gpuInstance, pc, opts, posVars, totalChecked, loopVars,
                 tuneVars, result, inspected, reports, prev, stage, probe>>

OtherDecodeDone ==
  /\ other.pc = "decode"
  /\ IF ~other.packetValid
       THEN /\ other' = [other EXCEPT !.pc = "returned"]
            /\ UNCHANGED <<cpuInstance, gpuInstance>>
       ELSE /\ cpuInstance' = (IF useCpu THEN TRUE ELSE cpuInstance)
            /\ gpuInstance' = (IF ~useCpu /\ gpuInstance = "null" THEN "created" ELSE gpuInstance)
            /\ other' = [other EXCEPT !.pc = IF ~useCpu /\ gpuInstance = "null" THEN "gpuInit"
                                             ELSE "running"]
  /\ UNCHANGED <<wordlist, abortFlag, useTimestampFilter, useUtf8Filter, useCpu, pc, opts,
                 posVars, totalChecked, loopVars, tuneVars, result, inspected, reports, prev,
                 stage, probe>>

OtherGpuInitDone ==
  /\ other.pc = "gpuInit"
  /\ \E gpuOk \in BOOLEAN :
       /\ gpuInstance' = (IF gpuInstance = "null" THEN "null"
                          ELSE IF gpuOk THEN "ok" ELSE "failed")
       /\ useCpu' = (IF gpuOk THEN useCpu ELSE TRUE)
       /\ cpuInstance' = (IF gpuOk THEN cpuInstance ELSE TRUE)
  /\ other' = [other EXCEPT !.pc = "running"]
  /\ UNCHANGED <<wordlist, abortFlag, useTimestampFilter, useUtf8Filter, pc, opts,
                 posVars, totalChecked, loopVars, tuneVars, result, inspected, reports, prev,
                 stage, probe>>

\* the second crack() returns, whatever its outcome
OtherReturn ==
  /\ other.pc = "running"
  /\ other' = [other EXCEPT !.pc = "returned"]
  /\ UNCHANGED <<instVars, pc, opts, posVars, totalChecked, loopVars, tuneVars, result,
                 inspected, reports, prev, stage, probe>>

\* destroy(), while a crack() is suspended
DestroySuspended ==
  /\ pc \in SuspendedPcs
  /\ gpuInstance # "null" \/ cpuInstance
  /\ gpuInstance' = "null"
  /\ cpuInstance' = FALSE
  /\ UNCHANGED <<wordlist, abortFlag, useTimestampFilter, useUtf8Filter, useCpu, pc, opts,
                 posVars, totalChecked, loopVars, tuneVars, result, histVars>>

NextOverlap ==
  \/ SetWordlist(<<NameAB, NameA>>)
  \/ Abort
  \/ CrackStartOverlap
  \/ OtherBegin
  \/ OtherDecodeDone
  \/ OtherGpuInitDone
  \/ OtherReturn
  \/ Destroy
  \/ DestroySuspended
  \/ DecodeDone
  \/ GpuInitDone
  \/ Setup
  \/ Phase1
  \/ Phase2
  \/ DictStep
  \/ DictDone
  \/ Resumed
  \/ BfLength
  \/ BfLengthDone
  \/ BfBatch
  \/ GpuBatchDone
  \/ NotFound

SpecOverlap == Init /\ [][NextOverlap]_vars

\* ------------------------------------------------------------ termination
\* One call on either backend, with or without a cursor.  Each await of crack()
\* settles: the decode, the accelerator init, every dispatch and every timer.
OptionsLive ==
  { [ packet |-> p, maxLength |-> ml, startingLength |-> sl, useDictionary |-> ud,
      useTimestampFilter |-> TRUE, useUtf8Filter |-> TRUE,
      startFrom |-> c[1], startFromType |-> c[2], forceCpu |-> fc ] :
    p \in {q \in Packets : q.hits = Hits({}) \/ RoomKey(NameBDashB) \in DOMAIN q.hits},
    ml \in {1, MaxLen}, sl \in {1}, ud \in BOOLEAN, fc \in BOOLEAN,
    c \in {<<None, "bruteforce">>, <<NameA, "dictionary">>, <<NameAB, "bruteforce">>} }

CrackStartLive ==
  /\ stage = "new"
  /\ \E o \in OptionsLive : Begin(o)
  /\ prev' = NoPrev
  /\ stage' = "first"

CrackStep ==
  \/ DecodeDone
  \/ GpuInitDone
  \/ Setup
  \/ Phase1
  \/ Phase2
  \/ DictStep
  \/ DictDone
  \/ Resumed
  \/ BfLength
  \/ BfLengthDone
  \/ BfBatch
  \/ GpuBatchDone
  \/ NotFound

NextLive ==
  \/ SetWordlist(<<NameAB, NameA>>)
  \/ Abort
  \/ CrackStartLive
  \/ CrackStep

SpecLive == Init /\ [][NextLive]_vars /\ WF_vars(CrackStep)

\* --------------------------------------------------------- pure functions
\* The channel hash of a key: one byte, scaled to HashBuckets values.
HashBuckets == NumChars + 1
RECURSIVE SumOf(_)
SumOf(s) == IF s = <<>> THEN 0 ELSE Head(s) + SumOf(Tail(s))
getChannelHash(key) == SumOf(key) % HashBuckets

\* DictionaryIndex: the constructor's empty buckets, build() and lookup()
EmptyIndex == [c \in 0..(HashBuckets - 1) |-> <<>>]

\* mutant: build() puts each word at the head of its bucket
Push_Front(bucket, entry) == <<entry>> \o bucket

Push(bucket, entry) == Append(bucket, entry)

RECURSIVE build(_, _, _)
build(byHash, words, k) ==
  IF k > Len(words) THEN byHash
  ELSE LET word == words[k]
           key == deriveKeyFromRoomName(<<HashSign>> \o word)
           channelHash == getChannelHash(key)
       IN build([byHash EXCEPT ![channelHash] = Push(@, [word |-> word, key |-> key])],
                words, k + 1)

lookup(byHash, channelHash) ==
  IF channelHash \in DOMAIN byHash THEN byHash[channelHash] ELSE <<>>

\* the index as an object: its buckets and its word count
NewIndex == [byHash |-> EmptyIndex, totalWords |-> 0]
buildIndex(index, words) ==
  [byHash |-> build(index.byHash, words, 1), totalWords |-> Len(words)]
size(index) == index.totalWords

\* decodePacket: the hex string is trimmed, white space and a leading 0x are
\* removed, and a non-empty string of hex digits goes to the frame decoder.
Null == [isGroupText |-> FALSE]
HexChars == BoundaryChars \cup {Upper(c) : c \in BoundaryChars} \cup {Zero}
removeWhitespace(s) == LET NotSpace(c) == c # Space IN SelectSeq(s, NotSpace)

\* mutant: only a lower-case 0x is removed
strip0x_LowerOnly(s) ==
  IF Len(s) >= 2 /\ s[1] = Zero /\ s[2] = LowerX THEN SubSeq(s, 3, Len(s)) ELSE s

strip0x(s) ==
  IF Len(s) >= 2 /\ s[1] = Zero /\ s[2] \in {LowerX, UpperX} THEN SubSeq(s, 3, Len(s)) ELSE s

isHexString(s) == Len(s) > 0 /\ \A k \in 1..Len(s) : s[k] \in HexChars

\* The frame decoder reads bytes, whatever the case of the digits; a frame whose
\* first digit is 'a' is a group-text frame with its three fields.
decodeWithVerification(cleanHex) ==
  LET bytes == toLowerCase(cleanHex)
  IN IF bytes[1] = 0
       THEN [isGroupText |-> TRUE, channelHash |-> SubSeq(bytes, 1, 1),
             ciphertext |-> bytes, cipherMac |-> SubSeq(bytes, Len(bytes), Len(bytes))]
       ELSE Null

decodePacket(packetHex) ==
  LET cleanHex == strip0x(removeWhitespace(trim(packetHex)))
  IN IF ~isHexString(cleanHex) THEN Null ELSE decodeWithVerification(cleanHex)

\* crack() lower-cases the packet before it decodes it
crackDecode(packetHex) == decodePacket(toLowerCase(packetHex))

\* the inputs of the pure functions
\* variants of a string: letter case, a 0x or 0X prefix, white space around or inside
toUpperCase(s) ==
  [k \in 1..Len(s) |-> IF s[k] \in BoundaryChars THEN Upper(s[k])
                       ELSE IF s[k] = LowerX THEN UpperX ELSE s[k]]
CaseVariants(s) ==
  {s, toUpperCase(s)} \cup {[s EXCEPT ![k] = toUpperCase(s)[k]] : k \in 1..Len(s)}
SpacedVariants(s) ==
  {s, <<Space>> \o s, s \o <<Space, Space>>}
    \cup {SubSeq(s, 1, k) \o <<Space>> \o SubSeq(s, k + 1, Len(s)) : k \in 1..(Len(s) - 1)}
HexVariants(s) ==
  UNION { UNION { SpacedVariants(t) : t \in {c, <<Zero, LowerX>> \o c, <<Zero, UpperX>> \o c} } :
          c \in CaseVariants(s) }

RECURSIVE SeqsUpTo(_, _)
SeqsUpTo(S, n) ==
  IF n = 0 THEN {<<>>}
  ELSE LET shorter == SeqsUpTo(S, n - 1)
       IN shorter \cup {Append(q, x) : q \in shorter, x \in S}

ProbeHexStrings == SeqsUpTo(BoundaryChars \cup {Zero}, MaxLen) \cup {<<0, Other>>, <<LowerX, 0>>, <<Other>>}
ProbeNames == SeqsUpTo(BoundaryChars \cup {Dash}, MaxLen + 1)
                \cup {<<Other>>, <<0, Other>>, <<Upper(0)>>, <<0, Space>>}
ProbeWords ==
  { <<>>, <<Space>>, NameA, <<Upper(0)>>, <<Space, 0, Space>>, <<Dash>>, <<Space, Dash>>,
    <<0, Dash>>, <<Dash, 0>>, <<0, Dash, 1>>, <<0, Dash, Dash, 1>>, <<0, Space, 1>>,
    <<0, Other>>, <<Upper(1), Dash, Upper(0)>> }
ProbeWordLists == SeqsUpTo(ProbeWords, 2)
ProbeRebuilds == SeqsUpTo({NameA, NameB, NameAB}, 2)
ProbeDictionaries == SeqsUpTo({NameA, NameB, NameAB, NameBA, <<0, Dash, 1>>}, MaxLen)

ProbeInputs ==
  {[op |-> "indexToRoomName", arg |-> <<len, idx>>, out |-> <<>>, done |-> FALSE] :
     len \in 0..(MaxLen + 1), idx \in (0 - 1)..countNamesForLength(MaxLen + 1)}
  \cup {[op |-> "roomNameToIndex", arg |-> name, out |-> <<>>, done |-> FALSE] : name \in ProbeNames}
  \cup {[op |-> "countNamesForLength", arg |-> len, out |-> <<>>, done |-> FALSE] :
          len \in 1..(MaxLen + 2)}
  \cup {[op |-> "setWordlist", arg |-> words, out |-> <<>>, done |-> FALSE] :
          words \in ProbeWordLists}
  \cup {[op |-> "DictionaryIndex", arg |-> <<words, c>>, out |-> <<>>, done |-> FALSE] :
          words \in ProbeDictionaries, c \in 0..HashBuckets}
  \cup {[op |-> "DictionaryIndex.build", arg |-> <<first, second, c>>, out |-> <<>>, done |-> FALSE] :
          first \in ProbeRebuilds, second \in ProbeRebuilds, c \in 0..HashBuckets}
  \cup UNION { {[op |-> "decodePacket", arg |-> <<hex, v>>, out |-> <<>>, done |-> FALSE] :
                  v \in HexVariants(hex)} : hex \in ProbeHexStrings }
  \cup UNION { {[op |-> "startFrom", arg |-> <<name, v, type>>, out |-> <<>>, done |-> FALSE] :
                  v \in CaseVariants(name), type \in {"dictionary", "bruteforce"}} :
                name \in SeqsUpTo(BoundaryChars \cup {Dash}, MaxLen) }
  \cup UNION { UNION { {[op |-> "runBatch", arg |-> <<p, len, off, n, mac>>, out |-> <<>>,
                          done |-> FALSE] :
                          n \in 1..Min(BatchSize, countNamesForLength(len) - off),
                          p \in {q \in Packets : q.valid}, mac \in BOOLEAN} :
                        off \in 0..(countNamesForLength(len) - 1) } : len \in 1..(MaxLen + 1) }

InitPure == Constructed /\ probe \in ProbeInputs

Probed(op, out) ==
  /\ probe.op = op /\ ~probe.done
  /\ probe' = [probe EXCEPT !.out = out, !.done = TRUE]
  /\ UNCHANGED <<instVars, pc, opts, posVars, totalChecked, loopVars, tuneVars, result,
                 inspected, reports, prev, stage, other>>

ProbeIndexToRoomName == Probed("indexToRoomName", indexToRoomName(probe.arg[1], probe.arg[2]))

ProbeRoomNameToIndex == Probed("roomNameToIndex", roomNameToIndex(probe.arg))

ProbeCountNames == Probed("countNamesForLength", countNamesForLength(probe.arg))

ProbeSetWordlist == Probed("setWordlist", FilterWords(probe.arg))

ProbeDictionaryIndex ==
  Probed("DictionaryIndex",
         LET byHash == build(EmptyIndex, probe.arg[1], 1)
         IN [byHash |-> byHash, found |-> lookup(byHash, probe.arg[2])])

\* two build() calls on one index, then size() and lookup()
ProbeRebuild ==
  Probed("DictionaryIndex.build",
         LET index == buildIndex(buildIndex(NewIndex, probe.arg[1]), probe.arg[2])
         IN [byHash |-> index.byHash, size |-> size(index),
             found |-> lookup(index.byHash, probe.arg[3])])

ProbeDecodePacket ==
  Probed("decodePacket",
         [direct |-> <<decodePacket(probe.arg[1]), decodePacket(probe.arg[2])>>,
          viaCrack |-> <<crackDecode(probe.arg[1]), crackDecode(probe.arg[2])>>])

\* the resume position of a call with cursor startFrom, on a wordlist of two words
ProbeStartFrom ==
  Probed("startFrom",
         LET Position(name) == ResumePosition([NoOpts EXCEPT !.startFrom = name,
                                                             !.startFromType = probe.arg[3]],
                                              <<NameAB, NameA>>)
         IN <<Position(probe.arg[1]), Position(probe.arg[2])>>)

ProbeRunBatch ==
  Probed("runBatch",
         CpuRunBatch(probe.arg[1], probe.arg[2], probe.arg[3], probe.arg[4], probe.arg[5]))

NextPure ==
  \/ ProbeRebuild
  \/ ProbeDecodePacket
  \/ ProbeStartFrom
  \/ ProbeRunBatch
  \/ ProbeIndexToRoomName
  \/ ProbeRoomNameToIndex
  \/ ProbeCountNames
  \/ ProbeSetWordlist
  \/ ProbeDictionaryIndex

SpecPure == InitPure /\ [][NextPure]_vars

\* ======================================================== claims: helpers
Finished == pc = "idle" /\ stage # "new"
Exhausted(r) == ~r.found /\ ~r.aborted /\ ~r.error

LexLess(a, b) == a[1] < b[1] \/ (a[1] = b[1] /\ a[2] < b[2])

\* the (length, index) candidates the batches of a log cover, and its wordlist indices
BfCands(log) ==
  UNION { {<<log[k][2], x>> : x \in log[k][3]..(log[k][3] + log[k][4] - 1)} :
          k \in {j \in 1..Len(log) : log[j][1] = "bf"} }
DictIdx(log) == { log[k][2] : k \in {j \in 1..Len(log) : log[j][1] = "dict"} }
PublicSeen(log) == \E k \in 1..Len(log) : log[k][1] = "public"

\* what the packet says of a key, under the options of a call
KeyPasses(o, key) ==
  LET out == Outcome(o.packet, key)
  IN /\ out.hash /\ out.mac /\ out.dec
     /\ (o.useTimestampFilter => out.ts)
     /\ (o.useUtf8Filter => out.utf)
CandPasses(o, c) ==
  LET name == indexToRoomName(c[1], c[2])
  IN name # None /\ KeyPasses(o, <<KeyTag, HashSign>> \o name)

\* the index space of Phase C from (len, off) on, up to the maxLength of the options
BfRange(o, len, off) ==
  UNION { {<<l, x>> : x \in 0..(countNamesForLength(l) - 1)} : l \in len..o.maxLength }
  \ {c \in UNION { {<<l, x>> : x \in 0..(countNamesForLength(l) - 1)} : l \in len..len } : c[2] < off}
\* ... of which an uninterrupted run inspects every one up to its first passing candidate
UpToFirstPass(o, range) == {c \in range : \A d \in range : LexLess(d, c) => ~CandPasses(o, d)}

\* C1: a brute-force abort followed by a resume from the returned cursor (same
\* packet and options) loses no candidate: every candidate the uninterrupted run
\* inspects in Phase C is inspected by the aborted run or by the resumed one.
C1_BruteForceResumeLosesNothing ==
  (/\ Finished /\ stage = "resumed"
   /\ prev.result.aborted /\ prev.result.resumeType = "bruteforce"
   /\ ~result.aborted)
  => \A c \in UpToFirstPass(prev.opts, BfRange(prev.opts, prev.startFromLength, prev.startFromOffset)) :
       c \in BfCands(prev.inspected) \cup BfCands(inspected)

\* C2: a dictionary abort followed by a resume from the returned word loses no
\* word: every entry the uninterrupted dictionary phase inspects is inspected by
\* the aborted run or by the resumed one.
C2_DictionaryResumeLosesNothing ==
  (/\ Finished /\ stage = "resumed"
   /\ prev.result.aborted /\ prev.result.resumeType = "dictionary"
   /\ ~result.aborted)
  => \A j \in prev.dictionaryStartIndex..(Len(wordlist) - 1) :
       (\A d \in prev.dictionaryStartIndex..(j - 1) :
           ~KeyPasses(prev.opts, <<KeyTag, HashSign>> \o wordlist[d + 1]))
       => j \in DictIdx(prev.inspected) \cup DictIdx(inspected)

\* C3: a success, an abort and an exhaustion carry resumeFrom and resumeType; a
\* parse error carries neither.
C3_ResumeCursorAlwaysSet ==
  Finished =>
    /\ (result.found \/ result.aborted \/ Exhausted(result))
         => (result.resumeFrom # None /\ result.resumeType # "none")
    /\ result.error => (result.resumeFrom = None /\ result.resumeType = "none")

\* ------------------------------------------------------------ C4 .. C6
LastEvent == inspected[Len(inspected)]
HasBf(log) == \E k \in 1..Len(log) : log[k][1] = "bf"
FirstBf(log) == log[CHOOSE k \in 1..Len(log) : log[k][1] = "bf" /\ \A j \in 1..(k - 1) : log[j][1] # "bf"]
Cursor == toLowerCase(opts.startFrom)
Positions(wl, w) == {k - 1 : k \in {j \in 1..Len(wl) : wl[j] = w}}

\* C4: a success of a call resumed from cursor r strictly follows r: with a
\* dictionary cursor (a word of the list) the match is at a later list position
\* than r and is not r again, or comes from brute force; with a brute-force
\* cursor the match has a greater (length, index).
C4_ResumeMonotonic ==
  (Finished /\ result.found /\ opts.startFrom # None) =>
    IF opts.startFromType = "dictionary"
      THEN Positions(wordlist, Cursor) # {} =>
             \/ LastEvent[1] = "bf"
             \/ /\ LastEvent[1] = "dict"
                /\ indexOf(wordlist, Cursor) < LastEvent[2]
                /\ result.roomName # Cursor
      ELSE roomNameToIndex(Cursor) # NoPos =>
             LET r == roomNameToIndex(Cursor)
                 m == roomNameToIndex(result.roomName)
             IN LexLess(<<r.length, r.index>>, <<m.length, m.index>>)

\* C5: with a legal brute-force cursor W the first candidate of Phase C is
\* (|W|, index(W) + 1), or (|W| + 1, 0) when that index overflows the length.
C5_BruteForceResumeStart ==
  (/\ stage # "new" /\ opts.startFrom # None /\ opts.startFromType = "bruteforce"
   /\ roomNameToIndex(Cursor) # NoPos /\ HasBf(inspected))
  => LET w == roomNameToIndex(Cursor)
         expected == IF w.index + 1 >= countNamesForLength(w.length)
                       THEN <<w.length + 1, 0>> ELSE <<w.length, w.index + 1>>
     IN <<FirstBf(inspected)[2], FirstBf(inspected)[3]>> = expected

\* C6: with a dictionary cursor W the public room is not inspected, only list
\* entries after W are inspected (never W itself), whether or not W is in the
\* list, and brute force then starts at (startingLength, 0).
C6_DictionaryResume ==
  (stage # "new" /\ opts.startFrom # None /\ opts.startFromType = "dictionary") =>
    /\ ~PublicSeen(inspected)
    /\ \A j \in DictIdx(inspected) :
         wordlist[j + 1] # Cursor /\ \A k \in Positions(wordlist, Cursor) : k < j
    /\ HasBf(inspected) =>
         <<FirstBf(inspected)[2], FirstBf(inspected)[3]>> = <<opts.startingLength, 0>>

\* ------------------------------------------------------------ C7 .. C10
\* C7: with a brute-force cursor, neither the public room nor a wordlist entry is
\* inspected or reported, and a success comes from brute force.
C7_BruteForceResumeSkipsPhases ==
  (stage # "new" /\ opts.startFrom # None /\ opts.startFromType = "bruteforce") =>
    /\ ~PublicSeen(inspected)
    /\ DictIdx(inspected) = {}
    /\ reports.phase \notin {"public-key", "wordlist"}
    /\ (Finished /\ result.found) =>
         (result.resumeType = "bruteforce" /\ LastEvent[1] = "bf")

C7_Witness ==
  /\ Finished /\ result.found
  /\ opts.startFrom # None /\ opts.startFromType = "bruteforce"
  /\ opts.useDictionary
  /\ \E k \in 1..Len(wordlist) : KeyPasses(opts, <<KeyTag, HashSign>> \o wordlist[k])

EventRank(e) == IF e[1] = "public" THEN 0 ELSE IF e[1] = "dict" THEN 1 ELSE 2
EventLess(a, b) ==
  \/ EventRank(a) < EventRank(b)
  \/ a[1] = "dict" /\ b[1] = "dict" /\ a[2] < b[2]
  \/ a[1] = "bf" /\ b[1] = "bf" /\ LexLess(<<a[2], a[3]>>, <<b[2], b[3]>>)
OrderedLog == \A k \in 1..(Len(inspected) - 1) : EventLess(inspected[k], inspected[k + 1])
PhaseRank(p) ==
  IF p = "none" THEN 0 ELSE IF p = "public-key" THEN 1 ELSE IF p = "wordlist" THEN 2 ELSE 3

\* C8: inspections go public room, then wordlist entries in increasing index, then
\* brute-force batches in increasing (length, offset); the phase of successive
\* progress reports of a call never goes backwards.
C8_InspectionOrder ==
  /\ []OrderedLog
  /\ [][pc # "idle" => PhaseRank(reports'.phase) >= PhaseRank(reports.phase)]_vars

C8_Witness ==
  /\ PublicSeen(inspected)
  /\ Cardinality(DictIdx(inspected)) >= 2
  /\ \E a, b \in BfCands(inspected) : a[1] < b[1]
  /\ \E k \in 1..(Len(inspected) - 1) :
       inspected[k][1] = "bf" /\ inspected[k + 1][1] = "bf" /\ inspected[k][2] = inspected[k + 1][2]
  /\ reports.phase = "bruteforce"

\* the position Phase B and Phase C start from, by the resume semantics
ExpectedDictStart ==
  IF opts.startFrom # None /\ opts.startFromType = "dictionary" /\ Positions(wordlist, Cursor) # {}
    THEN indexOf(wordlist, Cursor) + 1 ELSE 0
ExpectedBfStart ==
  LET w == roomNameToIndex(Cursor)
      after == IF w.index + 1 >= countNamesForLength(w.length)
                 THEN <<w.length + 1, 0>> ELSE <<w.length, w.index + 1>>
  IN IF opts.startFrom # None /\ opts.startFromType = "bruteforce" /\ w # NoPos
          /\ LexLess(<<opts.startingLength, 0>>, after)
       THEN after ELSE <<opts.startingLength, 0>>
DictSearched ==
  opts.useDictionary /\ ~(opts.startFrom # None /\ opts.startFromType = "bruteforce")

\* C9: no candidate that precedes the returned room name in the search order
\* (from the resume cursor on) passes the hash, the tag and the enabled filters.
C9_FirstMatch ==
  (Finished /\ result.found) =>
    /\ (LastEvent[1] # "public" /\ opts.startFrom = None)
         => ~(HashMatches(opts.packet, PUBLIC_KEY) /\ KeyPasses(opts, PUBLIC_KEY))
    /\ (LastEvent[1] # "public" /\ DictSearched) =>
         \A j \in ExpectedDictStart..(Len(wordlist) - 1) :
           (LastEvent[1] = "bf" \/ j < LastEvent[2])
             => ~KeyPasses(opts, <<KeyTag, HashSign>> \o wordlist[j + 1])
    /\ LastEvent[1] = "bf" =>
         LET m == roomNameToIndex(result.roomName)
         IN \A c \in BfRange(opts, ExpectedBfStart[1], ExpectedBfStart[2]) :
              LexLess(c, <<m.length, m.index>>) => ~CandPasses(opts, c)

\* C10: a returned key verified the tag, decrypted, and passed each filter the
\* call enabled; only an unparsable packet gives an error.
C10_FilterSoundness ==
  Finished =>
    /\ result.found =>
         LET out == Outcome(opts.packet, result.key)
         IN /\ out.hash /\ out.mac /\ out.dec
            /\ opts.useTimestampFilter => out.ts
            /\ opts.useUtf8Filter => out.utf
            /\ result.key = (IF result.roomName = PUBLIC_ROOM_NAME THEN PUBLIC_KEY
                             ELSE <<KeyTag, HashSign>> \o result.roomName)
            /\ ~result.error
    /\ result.error => ~opts.packet.valid

C10_Witness ==
  /\ Finished /\ result.found
  /\ opts.useTimestampFilter /\ opts.useUtf8Filter
  /\ PublicSeen(inspected)
  /\ Outcome(opts.packet, PUBLIC_KEY).mac /\ ~Outcome(opts.packet, PUBLIC_KEY).ts
  /\ \E c \in BfCands(inspected) :
       LET name == indexToRoomName(c[1], c[2])
       IN /\ name # None
          /\ Outcome(opts.packet, <<KeyTag, HashSign>> \o name).dec
          /\ ~Outcome(opts.packet, <<KeyTag, HashSign>> \o name).utf

\* ------------------------------------------------------------ C11 .. C15
BfCount(log) == Cardinality({k \in 1..Len(log) : log[k][1] = "bf"})
DictCount(log) == Cardinality({k \in 1..Len(log) : log[k][1] = "dict"})

\* C11: once abort() has been called during a crack(), that call dispatches no
\* further batch to either backend and inspects no further wordlist entry: the
\* batch in flight or the dictionary step in progress is its last.
C11_CancellationLatency ==
  [][(abortFlag /\ pc # "idle") =>
       /\ BfCount(inspected') = BfCount(inspected)
       /\ DictCount(inspected') = DictCount(inspected)
       /\ pc' \notin {"dictYield", "gpuBatch"} \ {pc}]_vars

C11_Witness ==
  /\ pc = "idle" /\ result.aborted /\ result.resumeType = "bruteforce"
  /\ DictCount(inspected) > 0
  /\ BfCount(inspected) > 1
  /\ inspected[Len(inspected)][5] = "ok"

\* C12: a crack() of a well-formed packet during which abort() was called returns
\* aborted = true and found = false, wherever the flag was raised.
C12_AbortAlwaysAborts ==
  [][(abortFlag /\ opts.packet.valid /\ pc # "idle" /\ pc' = "idle")
       => (result'.aborted /\ ~result'.found)]_vars

\* C13: a call with an unparsable packet inspects nothing, reports no progress,
\* leaves gpuInstance and cpuInstance as they were, and returns found = false with
\* an error and no roomName, key, resumeFrom or resumeType.
C13_InvalidPacket ==
  /\ []((stage # "new" /\ ~opts.packet.valid) =>
          /\ pc \in {"decode", "idle"}
          /\ inspected = <<>> /\ reports = NoReport
          /\ pc = "idle" =>
               /\ result.error /\ ~result.found /\ ~result.aborted /\ ~result.thrown
               /\ result.roomName = None /\ result.key = None
               /\ result.resumeFrom = None /\ result.resumeType = "none")
  /\ [][(pc = "decode" /\ ~opts.packet.valid) => UNCHANGED <<cpuInstance, gpuInstance>>]_vars

C13_Witness ==
  /\ pc = "idle" /\ stage = "again" /\ ~opts.packet.valid /\ result.error
  /\ ~opts.forceCpu /\ prev.opts.forceCpu
  /\ gpuInstance = "null" /\ ~cpuInstance

\* C14: no batch is dispatched to an accelerator instance whose init() returned
\* false, in the call that saw the failure or in any later call, and no call
\* fails because of it.
C14_BackendFallback ==
  /\ \A k \in 1..Len(inspected) : inspected[k][1] = "bf" => inspected[k][5] # "failed"
  /\ ~result.thrown

\* C15: a call on the portable backend and the same call on the accelerator
\* (initialised, same packet, wordlist and options, neither aborted) return the
\* same found flag, roomName and key.
C15_BackendEquivalence ==
  (/\ pc = "idle" /\ stage = "again"
   /\ prev.opts.forceCpu /\ ~opts.forceCpu /\ ~useCpu /\ gpuInstance = "ok"
   /\ ~prev.result.aborted /\ ~result.aborted)
  => /\ result.found = prev.result.found
     /\ result.roomName = prev.result.roomName
     /\ result.key = prev.result.key

\* ------------------------------------------------------------ C16 .. C20
\* the room-name grammar
GrammarName(n) ==
  /\ Len(n) >= 1
  /\ \A k \in 1..Len(n) : n[k] \in BoundaryChars \cup {Dash}
  /\ n[1] # Dash /\ n[Len(n)] # Dash
  /\ \A k \in 1..(Len(n) - 1) : ~(n[k] = Dash /\ n[k + 1] = Dash)

\* C16: for every legal name n, roomNameToIndex(n) is defined with length |n| and
\* indexToRoomName(|n|, that index) = n; and every name indexToRoomName(L, i)
\* returns has roomNameToIndex (L, i).
C16_EnumeratorRoundTrip ==
  probe.done =>
    /\ (probe.op = "roomNameToIndex" /\ GrammarName(probe.arg)) =>
         /\ probe.out # NoPos
         /\ probe.out.length = Len(probe.arg)
         /\ indexToRoomName(Len(probe.arg), probe.out.index) = probe.arg
    /\ (probe.op = "indexToRoomName" /\ probe.out # None) =>
         roomNameToIndex(probe.out) = [length |-> probe.arg[1], index |-> probe.arg[2]]

C16_Witness ==
  /\ probe.done /\ probe.op = "roomNameToIndex"
  /\ GrammarName(probe.arg) /\ Len(probe.arg) > 2
  /\ \E k \in 1..Len(probe.arg) : probe.arg[k] = Dash
  /\ probe.out.index > 0

\* C17: countNamesForLength(1) is the number of boundary characters, and for
\* L >= 2 it is that number squared times (that number + 1)^(L-2); every index
\* below the count decodes to a legal name of length L or to no name, and every
\* legal name of length L has an index below the count.
C17_CountingConvention ==
  probe.done =>
    /\ probe.op = "countNamesForLength" =>
         probe.out = (IF probe.arg = 1 THEN NumChars
                      ELSE NumChars * Pow(NumChars + 1, probe.arg - 2) * NumChars)
    /\ (/\ probe.op = "indexToRoomName" /\ probe.arg[1] >= 1
        /\ probe.arg[2] >= 0 /\ probe.arg[2] < countNamesForLength(probe.arg[1])) =>
         \/ probe.out = None
         \/ GrammarName(probe.out) /\ Len(probe.out) = probe.arg[1]
    /\ (probe.op = "roomNameToIndex" /\ GrammarName(probe.arg)) =>
         /\ probe.out.index >= 0
         /\ probe.out.index < countNamesForLength(Len(probe.arg))

C17_Witness ==
  /\ probe.done /\ probe.op = "indexToRoomName"
  /\ probe.arg[2] >= 0 /\ probe.arg[2] < countNamesForLength(probe.arg[1])
  /\ probe.out = None

ExpectedBucket(words, c) ==
  LET InBucket(e) == getChannelHash(e.key) = c
  IN SelectSeq([k \in 1..Len(words) |-> [word |-> words[k], key |-> RoomKey(words[k])]], InBucket)
RECURSIVE BucketSizes(_, _)
BucketSizes(byHash, c) == IF c < 0 THEN 0 ELSE Len(byHash[c]) + BucketSizes(byHash, c - 1)

\* C18: after build(words) on a new index, each bucket holds exactly the words
\* whose channel hash is its byte, in input order, each with its derived key;
\* the buckets together hold each input word once; lookup returns the bucket,
\* and an empty list for a byte with no words.
C18_DictionaryIndex ==
  (probe.done /\ probe.op = "DictionaryIndex") =>
    LET words == probe.arg[1]
        c == probe.arg[2]
        byHash == probe.out.byHash
    IN /\ \A b \in 0..(HashBuckets - 1) : byHash[b] = ExpectedBucket(words, b)
       /\ BucketSizes(byHash, HashBuckets - 1) = Len(words)
       /\ probe.out.found = ExpectedBucket(words, c)

C18_Witness ==
  /\ probe.done /\ probe.op = "DictionaryIndex"
  /\ Len(probe.out.found) >= 2
  /\ probe.out.found[1].word # probe.out.found[2].word
  /\ Len(probe.out.found) < Len(probe.arg[1])

\* C19: after setWordlist(words) every stored word is a legal room name (a
\* one-character word included), and the list is the trimmed, lower-cased inputs
\* that are legal, in input order.
C19_WordlistFilter ==
  (probe.done /\ probe.op = "setWordlist") =>
    /\ \A k \in 1..Len(probe.out) : GrammarName(probe.out[k])
    /\ probe.out = SelectSeq([k \in 1..Len(probe.arg) |-> toLowerCase(trim(probe.arg[k]))],
                             GrammarName)

\* C20: every batch of Phase C has a length between startingLength and
\* maxLength, whatever the cursor; a brute-force success has such a length; and
\* no batch is dispatched when startingLength > maxLength.
C20_LengthBounds ==
  stage # "new" =>
    /\ \A k \in 1..Len(inspected) :
         inspected[k][1] = "bf" =>
           (opts.startingLength <= inspected[k][2] /\ inspected[k][2] <= opts.maxLength)
    /\ (Finished /\ result.found /\ LastEvent[1] = "bf") =>
         (opts.startingLength <= Len(result.roomName) /\ Len(result.roomName) <= opts.maxLength)
    /\ opts.startingLength > opts.maxLength => ~HasBf(inspected)

C20_Witness ==
  /\ Finished /\ result.found /\ LastEvent[1] = "bf"
  /\ opts.startFrom # None /\ opts.startFromType = "bruteforce"
  /\ roomNameToIndex(Cursor) # NoPos
  /\ Len(Cursor) < opts.startingLength

\* ------------------------------------------------------------ C21 .. C25
\* C21: with useDictionary false no wordlist entry is inspected, the progress
\* total counts brute-force candidates only, and a success comes from the public
\* room or brute force; with useDictionary true, a loaded wordlist and no
\* brute-force cursor, every remaining wordlist entry is inspected before the
\* first batch.
C21_UseDictionary ==
  stage # "new" =>
    /\ ~opts.useDictionary =>
         /\ DictIdx(inspected) = {}
         /\ reports # NoReport =>
              reports.total = SumCounts(startFromLength, opts.maxLength) - startFromOffset
         /\ (Finished /\ result.found) => LastEvent[1] \in {"public", "bf"}
    /\ (/\ opts.useDictionary /\ Len(wordlist) > 0
        /\ ~(opts.startFrom # None /\ opts.startFromType = "bruteforce")
        /\ HasBf(inspected)) =>
         /\ \A j \in ExpectedDictStart..(Len(wordlist) - 1) : j \in DictIdx(inspected)
         /\ \A a, b \in 1..Len(inspected) :
              (inspected[a][1] = "dict" /\ inspected[b][1] = "bf") => a < b

C21_Witness ==
  /\ Finished /\ result.found /\ ~opts.useDictionary
  /\ LastEvent[1] = "bf" /\ reports.phase = "bruteforce"
  /\ \E k \in 1..Len(wordlist) : KeyPasses(opts, <<KeyTag, HashSign>> \o wordlist[k])

\* C22: within one crack() the checked field of successive progress reports
\* never decreases and the total field is the same in every report.
C22_ProgressMonotone ==
  [][(pc # "idle" /\ reports # NoReport) =>
       /\ reports'.checked >= reports.checked
       /\ reports'.total = reports.total]_vars

C22_Witness ==
  /\ reports.phase = "bruteforce"
  /\ DictCount(inspected) > 1
  /\ BfCount(inspected) > 1
  /\ reports.checked > currentBatchSize + 1
  /\ opts.startFrom # None

MalformedCursor ==
  /\ opts.startFrom # None /\ opts.startFromType = "bruteforce"
  /\ roomNameToIndex(Cursor) = NoPos

\* C23: a call with a malformed brute-force cursor runs the phases of a fresh
\* call: the public room is inspected, then the wordlist (when enabled and
\* loaded) from its first entry, then brute force from (startingLength, 0).
C23_MalformedCursorIsFresh ==
  (stage # "new" /\ MalformedCursor /\ opts.packet.valid) =>
    /\ pc \notin {"decode", "setup", "phase1"} => PublicSeen(inspected)
    /\ (HasBf(inspected) /\ opts.useDictionary) =>
         \A j \in 0..(Len(wordlist) - 1) : j \in DictIdx(inspected)
    /\ HasBf(inspected) =>
         <<FirstBf(inspected)[2], FirstBf(inspected)[3]>> = <<opts.startingLength, 0>>

\* the last inspection of a log, when there is one
LastOf(log) == log[Len(log)]

\* C24: when a success is skipped by resuming from its cursor (same packet,
\* wordlist and options), the next success is at a strictly later position of
\* the search order: no position is returned twice.
C24_SkipFalsePositive ==
  (/\ Finished /\ stage = "resumed"
   /\ prev.result.found /\ result.found)
  => EventLess(LastOf(prev.inspected), LastOf(inspected))

\* C25: a dictionary success has resumeFrom = roomName = the matched word and
\* resumeType 'dictionary'; a brute-force success has resumeFrom = roomName, a
\* name of the matching batch, and resumeType 'bruteforce'; an abort has the
\* resumeType of the loop that observed the flag.
C25_ResumeFields ==
  /\ []((Finished /\ result.found /\ LastEvent[1] = "dict") =>
          /\ result.roomName = wordlist[LastEvent[2] + 1]
          /\ result.resumeFrom = result.roomName
          /\ result.resumeType = "dictionary")
  /\ []((Finished /\ result.found /\ LastEvent[1] = "bf") =>
          /\ roomNameToIndex(result.roomName).length = LastEvent[2]
          /\ roomNameToIndex(result.roomName).index \in LastEvent[3]..(LastEvent[3] + LastEvent[4] - 1)
          /\ result.resumeFrom = result.roomName
          /\ result.resumeType = "bruteforce")
  /\ [][(pc # "idle" /\ pc' = "idle" /\ result'.aborted) =>
          result'.resumeType = (IF pc = "dict" THEN "dictionary" ELSE "bruteforce")]_vars

C25_Witness ==
  /\ Finished /\ result.aborted /\ result.resumeType = "dictionary"
  /\ DictCount(inspected) > 0
  /\ stage = "resumed" /\ prev.result.found /\ prev.result.resumeType = "dictionary"

C27_PortableExecutorExact ==
  (probe.done /\ probe.op = "runBatch") =>
    LET packet == probe.arg[1]
        len == probe.arg[2]
        off == probe.arg[3]
        n == probe.arg[4]
        mac == probe.arg[5]
        Wanted(x) == LET name == indexToRoomName(len, x)
                     IN /\ name # None
                        /\ Outcome(packet, <<KeyTag, HashSign>> \o name).hash
                        /\ mac => Outcome(packet, <<KeyTag, HashSign>> \o name).mac
    IN /\ {probe.out[k] : k \in 1..Len(probe.out)} = {x \in off..(off + n - 1) : Wanted(x)}
       /\ \A k \in 1..(Len(probe.out) - 1) : probe.out[k] < probe.out[k + 1]

C27_Witness ==
  /\ probe.done /\ probe.op = "runBatch"
  /\ probe.arg[3] > 0 /\ ~probe.arg[5]
  /\ Len(probe.out) > 0
  /\ ~Outcome(probe.arg[1], <<KeyTag, HashSign>> \o indexToRoomName(probe.arg[2], probe.out[1])).mac

BfPcs == {"bfLength", "bfBatch", "bfYield", "gpuBatch"}
IsPowerOfTwo(n) == \E k \in 0..n : n = Pow(2, k)

TuneStep ==
  pc \in BfPcs =>
    /\ currentBatchSize' # currentBatchSize =>
         /\ pc = "gpuBatch" /\ ~useCpu /\ ~batchSizeTuned /\ batchSizeTuned'
         /\ LastOf(inspected)[4] >= INITIAL_BATCH_SIZE
         /\ dispatchTime' > 0
         /\ IsPowerOfTwo(currentBatchSize')
         /\ currentBatchSize' >= INITIAL_BATCH_SIZE
    /\ useCpu => (~batchSizeTuned' /\ currentBatchSize' = currentBatchSize)
    /\ batchSizeTuned => (batchSizeTuned' /\ currentBatchSize' = currentBatchSize)

\* C29: during the brute-force phase of one crack() the batch size changes only
\* when an accelerator dispatch settles, the portable backend is not in use, no
\* tuning has happened yet, the batch had at least the initial size and its
\* measured time was > 0; the new size is a power of two, at least the initial
\* size; and once tuned the size stays as it is until crack() returns.
C29_AutoTune == [][TuneStep]_vars

C29_Witness ==
  /\ pc = "gpuBatch" /\ batchSizeTuned
  /\ currentBatchSize > INITIAL_BATCH_SIZE
  /\ BfCount(inspected) >= 3

\* The positions a batch event covers, and the batch events of one length.
BfOf(log, len) == {k \in 1..Len(log) : log[k][1] = "bf" /\ log[k][2] = len}
RangeOf(e) == e[3]..(e[3] + e[4] - 1)
StartOf(len) == IF len = startFromLength THEN startFromOffset ELSE 0

PartitionState ==
  /\ pc \in {"bfBatch", "bfYield", "gpuBatch"} =>
       (0 <= offset /\ offset <= countNamesForLength(length))
  /\ \A k \in 1..Len(inspected) : inspected[k][1] = "bf" =>
       /\ inspected[k][4] >= 1 /\ inspected[k][3] >= 0
       /\ inspected[k][3] + inspected[k][4] <= countNamesForLength(inspected[k][2])
       /\ (\A j \in 1..(k - 1) : inspected[j][1] # "bf") =>
            inspected[k][3] = StartOf(inspected[k][2])
       /\ (k < Len(inspected) /\ inspected[k + 1][2] = inspected[k][2]) =>
            inspected[k + 1][3] = inspected[k][3] + inspected[k][4]
       /\ (k < Len(inspected) /\ inspected[k + 1][2] # inspected[k][2]) =>
            /\ inspected[k][3] + inspected[k][4] = countNamesForLength(inspected[k][2])
            /\ inspected[k + 1][2] = inspected[k][2] + 1
            /\ inspected[k + 1][3] = 0
  /\ (Finished /\ Exhausted(result) /\ ~result.thrown) =>
       \A len \in startFromLength..opts.maxLength :
         UNION {RangeOf(inspected[k]) : k \in BfOf(inspected, len)}
           = StartOf(len)..(countNamesForLength(len) - 1)

DispatchStep ==
  (Len(inspected') = Len(inspected) + 1 /\ LastOf(inspected')[1] = "bf") =>
    /\ LastOf(inspected')[4] <= currentBatchSize
    /\ LastOf(inspected')[2] = length /\ LastOf(inspected')[3] = offset

\* C28: for each length the dispatched batches are contiguous, non-overlapping
\* ranges [offset, offset+batchSize) with 1 <= batchSize <= currentBatchSize that
\* never extend past countNamesForLength(L); 0 <= offset <= countNamesForLength(L)
\* throughout; and in a run that ends exhausted the batches of length L cover
\* exactly [start_L, countNamesForLength(L)), start_L being the resume offset for
\* the first length and 0 for the others.
C28_BatchPartition == []PartitionState /\ [][DispatchStep]_vars

C28_Witness ==
  /\ Finished /\ Exhausted(result) /\ stage = "resumed"
  /\ startFromOffset > 0 /\ startFromLength < opts.maxLength
  /\ Cardinality(BfOf(inspected, startFromLength)) >= 1
  /\ Cardinality(BfOf(inspected, opts.maxLength)) >= 3

\* A batch has been checked without a match, and it is not the last one.
BatchChecked ==
  /\ pc \in {"bfBatch", "gpuBatch"}
  /\ totalChecked' > totalChecked
  /\ pc' # "idle"
  /\ (offset' < countNamesForLength(length) \/ length < opts.maxLength)

\* C30: after each batch of either backend, crack() yields to the host scheduler
\* before it dispatches the next batch.
C30_YieldAfterEachBatch == [][BatchChecked => pc' = "bfYield"]_vars

\* ------------------------------------------------------------ C31 .. C38
\* The positions a call has to search from its resume position: the wordlist
\* entries still to try and the brute-force positions of the lengths searched.
RemainingPositions ==
  {<<"dict", j>> : j \in (IF DictionaryEnabled(opts, wordlist, skipDictionary)
                            THEN dictionaryStartIndex..(Len(wordlist) - 1) ELSE {})}
  \cup UNION {{<<"bf", len, x>> : x \in StartOf(len)..(countNamesForLength(len) - 1)} :
              len \in startFromLength..opts.maxLength}

\* C31: the total of every progress report is the number of positions remaining
\* from the resume cursor; every report has 0 <= checked <= total and
\* 0 <= percent <= 100; and when a run ends exhausted the number of positions
\* checked equals the total.
C31_ProgressAccounting ==
  /\ (reports # NoReport /\ pc # "idle") =>
       /\ reports.total = Cardinality(RemainingPositions)
       /\ 0 <= reports.checked /\ reports.checked <= reports.total
       /\ 0 <= reports.percent /\ reports.percent <= 100
  /\ (Finished /\ Exhausted(result) /\ ~result.thrown) => totalChecked = totalCandidates

\* the (length, index) of a legal name
PositionOf(name) == <<roomNameToIndex(name).length, roomNameToIndex(name).index>>
BruteforceCursorGiven ==
  /\ stage # "new" /\ opts.packet.valid
  /\ opts.startFrom # None /\ opts.startFromType = "bruteforce"
  /\ roomNameToIndex(Cursor) # NoPos

\* C32: a crack() started with a brute-force cursor r returns, with every result
\* of resume type 'bruteforce', a cursor whose (length, index) is not before r.
C32_CursorNeverBackwards ==
  (Finished /\ BruteforceCursorGiven /\ result.resumeType = "bruteforce"
     /\ result.resumeFrom # None)
  => ~LexLess(PositionOf(result.resumeFrom), PositionOf(Cursor))

\* C33: once the cancellation flag has been raised during a crack(), it stays
\* raised until that crack() returns, whatever calls of abort(), crack() and
\* destroy() are made at its suspension points.
C33_AbortFlagMonotone == [][(pc # "idle" /\ abortFlag) => abortFlag']_vars

\* a step of the second crack() while the first is in flight
OtherCrackStep == pc # "idle" /\ other' # other

\* C34: while a crack() is suspended, the filter settings, the backend selection
\* and the abort flag it uses are not changed by another crack() call on the
\* same instance.
C34_OneCrackInFlight ==
  [][OtherCrackStep =>
       UNCHANGED <<useTimestampFilter, useUtf8Filter, useCpu, abortFlag>>]_vars

\* C35: a found result has a room name, a key and a decrypted message and is
\* neither aborted nor an error; the key of a dictionary or brute-force success
\* is the key derived from '#' + roomName, that of a public-room success is the
\* fixed public key under the fixed public name, and in both cases the channel
\* hash of the key is the packet's; an aborted result is not found.
C35_ResultConsistency ==
  Finished =>
    /\ result.found =>
         /\ result.roomName # None /\ result.key # None
         /\ DecryptOk(opts.packet, result.key)
         /\ ~result.aborted /\ ~result.error
         /\ IF result.resumeType = "none"
              THEN result.roomName = PUBLIC_ROOM_NAME /\ result.key = PUBLIC_KEY
              ELSE /\ result.resumeType \in {"dictionary", "bruteforce"}
                   /\ result.key = deriveKeyFromRoomName(<<HashSign>> \o result.roomName)
         /\ Outcome(opts.packet, result.key).hash
    /\ result.aborted => ~result.found

C35_Witness ==
  /\ Finished /\ result.found /\ result.resumeType = "bruteforce"
  /\ ~useCpu
  /\ Outcome(opts.packet, PUBLIC_KEY) = OtherChannel
  /\ PublicSeen(inspected)

\* a step that releases a backend instance
ReleaseStep ==
  \/ cpuInstance /\ ~cpuInstance'
  \/ gpuInstance # "null" /\ gpuInstance' = "null"

DispatchedOnInstance ==
  \A k \in 1..Len(inspected) : inspected[k][1] = "bf" => inspected[k][5] # "null"

\* C36: destroy() leaves both backend instances null and the wordlist as it was,
\* and every batch is dispatched on a backend instance that is not null (a
\* crack() after destroy() creates the instance it needs first).
C36_DestroyAndBackend ==
  /\ []DispatchedOnInstance
  /\ [][ReleaseStep => (gpuInstance' = "null" /\ ~cpuInstance' /\ wordlist' = wordlist)]_vars

\* the position of the last batch dispatched
LastBf(log) == log[CHOOSE k \in 1..Len(log) : log[k][1] = "bf" /\ \A j \in (k + 1)..Len(log) : log[j][1] # "bf"]
BatchAdvances ==
  (Len(inspected') = Len(inspected) + 1 /\ LastOf(inspected')[1] = "bf" /\ HasBf(inspected))
  => LexLess(<<LastBf(inspected)[2], LastBf(inspected)[3]>>,
             <<LastOf(inspected')[2], LastOf(inspected')[3]>>)
FourOutcomes ==
  (Finished /\ ~result.thrown) =>
    Cardinality({k \in {"error", "found", "aborted", "exhausted"} :
                   \/ k = "error" /\ result.error
                   \/ k = "found" /\ result.found
                   \/ k = "aborted" /\ result.aborted
                   \/ k = "exhausted" /\ Exhausted(result)}) = 1

\* C37: every crack() call whose awaits settle eventually returns, with one of
\* the four outcomes error, found, aborted, exhausted; and each batch of the
\* brute-force phase is at a (length, offset) strictly after the one before it.
C37_Termination ==
  /\ (pc # "idle") ~> (pc = "idle")
  /\ []FourOutcomes
  /\ [][BatchAdvances]_vars

C37_Witness ==
  /\ Finished /\ Exhausted(result) /\ ~result.thrown
  /\ opts.startFrom # None
  /\ BfCount(inspected) >= 3
  /\ ~useCpu

\* C38: after build() calls on one index, size() is the number of entries held
\* in the buckets, and lookup returns only words of the list built last.
C38_IndexAfterRebuild ==
  (probe.done /\ probe.op = "DictionaryIndex.build") =>
    /\ probe.out.size = BucketSizes(probe.out.byHash, HashBuckets - 1)
    /\ \A k \in 1..Len(probe.out.found) :
         \E j \in 1..Len(probe.arg[2]) : probe.arg[2][j] = probe.out.found[k].word

====
